---- MODULE Spec2Model ----
(***************************************************************************)
(* Model of template/cordova/lib/AppxManifest.js (cordova-windows).        *)
(*                                                                         *)
(*   Spec         the process-wide manifest cache: get and purgeCache      *)
(*   SpecLoad     loading a manifest: get and the constructor              *)
(*   SpecChanges  the change demultiplexer: processChanges                 *)
(*   SpecCaps     the Capabilities element of one document: writeToString  *)
(*                and the appends that precede it                          *)
(*   SpecDoc      the views of one document and their setters,             *)
(*                setPackageName, setAppName and setDependencies           *)
(*   SpecRanges   getAllMinMaxUAPVersions of WindowsConfigParser.js, whose *)
(*                unit test calls it; modelled from its specification      *)
(***************************************************************************)
EXTENDS Integers, Sequences, FiniteSets, TLC

(***************************************************************************)
(* Bounds of the model.                                                    *)
(***************************************************************************)
\* number of AppxManifest objects the model lets the program allocate
MaxInst == 3
\* most keys listed in one purgeCache call
MaxKeys == 2

(***************************************************************************)
(* Values.                                                                 *)
(***************************************************************************)
\* file names handed to get / the constructor
Paths == {"/a/package.windows10.appxmanifest", "/b/package.windows10.appxmanifest"}

\* keys handed to purgeCache: the paths and a key that is never cached
CacheKeys == Paths \cup {"bar"}

\* what xml.parseElementtreeSync finds at a path: either the parse throws
\* (no file, not XML) or a tree whose root has a tag and may carry xmlns:uap.
\* The file system is outside the program: every call finds any of these.
NoFile == [parses |-> FALSE, rootTag |-> "", uap |-> FALSE]

FileContents ==
    {NoFile} \cup [parses : {TRUE}, rootTag : {"Package", "Other"}, uap : BOOLEAN]

\* the "no argument" of purgeCache()
NoKeys == [kind |-> "undefined", keys |-> {}]

\* purgeCache arguments: nothing, one string key, or an array of keys (an
\* array is given by the set of keys it lists: purgeCache deletes each of
\* them, in any order and however often it is listed)
KeyArgs ==
    {NoKeys}
    \cup {[kind |-> "string", keys |-> {k}] : k \in CacheKeys}
    \cup {[kind |-> "array", keys |-> ks] :
            ks \in {s \in SUBSET CacheKeys : Cardinality(s) <= MaxKeys}}

\* the value a failing call throws: an Error object or a bare value, and
\* its text as a sequence of words
NoThrow == [isError |-> FALSE, message |-> <<>>]

VARIABLES
    manifestCache,  \* AppxManifest.js:48, path -> instance id, 0 = no entry
    insts,          \* the AppxManifest objects created so far; id = index
    ret,            \* the last call: its arguments, outcome and parse count
    lastGot,        \* history: path -> instance of the last successful
                    \*   cached get since the path was last purged, 0 = none
    awaiting,       \* history: paths not yet fetched since purgeCache()
    swept           \* history: instances purgeCache() removed

cacheVars == <<manifestCache, insts, ret, lastGot, awaiting, swept>>

VARIABLES
    changes,        \* the array handed to processChanges
    processed       \* what processChanges returned, once it was called

changesVars == <<changes, processed>>

VARIABLES
    hasCapabilities,  \* the document has a Capabilities element
    children,         \* its child elements, in document order
    nextId,           \* elementtree's _id of the next new Element
    wret,             \* the last operation on the document
    beforeWrite       \* history: children when writeToString was last called

capsVars == <<hasCapabilities, children, nextId, wret, beforeWrite>>

\* the document of one AppxManifest whose setters are called: doc is the
\* tree, sret the last call, calls the number of calls made
VARIABLES doc, sret, calls

docVars == <<doc, sret, calls>>

\* one call of getAllMinMaxUAPVersions: the preferences of the config file
\* and what the call returned
VARIABLES preferences, resolved

rangeVars == <<preferences, resolved>>

vars == <<cacheVars, changesVars, capsVars, docVars, rangeVars>>

(***************************************************************************)
(* AppxManifest.js: thrown values.                                         *)
(***************************************************************************)
\* fs / parser failure inside xml.parseElementtreeSync
ParseFailure(path) ==
    [isError |-> TRUE, message |-> <<"cannot", "parse", path>>]

\* line 99: throw 'Windows 10 is only supported'  (a string, not an Error)
UnsupportedVersion ==
    [isError |-> FALSE, message |-> <<"Windows", "10", "is", "only", "supported">>]

\* line 66: throw new Error(path + ' has incorrect root node name (expected "Package")')
IncorrectRoot(path) ==
    [isError |-> TRUE,
     message |-> <<path, "has", "incorrect", "root", "node", "name",
                   "(expected", "\"Package\")">>]

(***************************************************************************)
(* AppxManifest.js: the constructor and get.                               *)
(***************************************************************************)
\* a constructor that does not look at the root tag
RootCheckSkipped(file) == TRUE

\* line 64: this.doc.getroot().tag !== 'Package' is the failing case
RootIsPackage(file) == file.rootTag = "Package"

\* a get that takes every root for a Windows 10 root
HasUapAttributeAlways(file) == TRUE

\* lines 96-99: Object.keys(root.attrib).includes('xmlns:uap')
HasUapAttribute(file) == file.uap

\* a lookup that lost the negation of ignoreCache
CacheHitNegationLost(cache, fileName, ignoreCache) ==
    ignoreCache /\ cache[fileName] # 0

\* line 94: !ignoreCache && manifestCache[fileName]
CacheHit(cache, fileName, ignoreCache) ==
    ~ignoreCache /\ cache[fileName] # 0

\* a store that does not ask for ignoreCache
StoreResultAlways(cache, fileName, ignoreCache, result) ==
    [cache EXCEPT ![fileName] = result]

\* line 103: if (!ignoreCache) manifestCache[fileName] = result
StoreResult(cache, fileName, ignoreCache, result) ==
    IF ~ignoreCache THEN [cache EXCEPT ![fileName] = result] ELSE cache

\* lines 61-71: new AppxManifest(path) on the content found at path:
\* one parse, then the root check
AppxManifest(path, file) ==
    IF ~file.parses THEN
        [ok |-> FALSE, thrown |-> ParseFailure(path)]
    ELSE IF ~RootIsPackage(file) THEN
        [ok |-> FALSE, thrown |-> IncorrectRoot(path)]
    ELSE
        [ok |-> TRUE, thrown |-> NoThrow]

\* the record of a call; removed lists the paths whose entry the call
\* took out of the cache
Call(op, fileName, ignoreCache, cacheKeys, file, parses, outcome, value, thrown, removed) ==
    [op |-> op, fileName |-> fileName, ignoreCache |-> ignoreCache,
     cacheKeys |-> cacheKeys, file |-> file, parses |-> parses,
     outcome |-> outcome, value |-> value, thrown |-> thrown,
     removed |-> removed]

\* a call that throws changes neither the cache nor the objects
Throws(op, fileName, ignoreCache, file, parses, thrown) ==
    /\ ret' = Call(op, fileName, ignoreCache, NoKeys, file, parses,
                   "throw", 0, thrown, {})
    /\ UNCHANGED <<manifestCache, insts, lastGot, awaiting, swept>>
    /\ UNCHANGED <<changesVars, capsVars, docVars, rangeVars>>

\* an AppxManifest object: its path (line 62) and, as history, the call
\* that created it: "cached" / "bypass" for get, "new" for the constructor
Instance(path, via) == [path |-> path, via |-> via]

\* lines 93-106: AppxManifest.get(fileName, ignoreCache); file is what the
\* file system holds at fileName when the call is made
Get(fileName, ignoreCache, file) ==
    IF CacheHit(manifestCache, fileName, ignoreCache) THEN
        /\ ret' = Call("get", fileName, ignoreCache, NoKeys, file, 0,
                       "ok", manifestCache[fileName], NoThrow, {})
        /\ lastGot' = [lastGot EXCEPT ![fileName] = manifestCache[fileName]]
        /\ awaiting' = awaiting \ {fileName}
        /\ UNCHANGED <<manifestCache, insts, swept>>
        /\ UNCHANGED <<changesVars, capsVars, docVars, rangeVars>>
    ELSE IF ~file.parses THEN
        Throws("get", fileName, ignoreCache, file, 1, ParseFailure(fileName))
    ELSE IF ~HasUapAttribute(file) THEN
        Throws("get", fileName, ignoreCache, file, 1, UnsupportedVersion)
    ELSE IF ~AppxManifest(fileName, file).ok THEN
        Throws("get", fileName, ignoreCache, file, 2,
               AppxManifest(fileName, file).thrown)
    ELSE
        LET result == Len(insts) + 1 IN
        /\ Len(insts) < MaxInst
        /\ insts' = Append(insts, Instance(fileName,
                         IF ignoreCache THEN "bypass" ELSE "cached"))
        /\ manifestCache' = StoreResult(manifestCache, fileName, ignoreCache, result)
        /\ ret' = Call("get", fileName, ignoreCache, NoKeys, file, 2,
                       "ok", result, NoThrow, {})
        /\ lastGot' = IF ignoreCache THEN lastGot
                      ELSE [lastGot EXCEPT ![fileName] = result]
        /\ awaiting' = IF ignoreCache THEN awaiting ELSE awaiting \ {fileName}
        /\ UNCHANGED swept
        /\ UNCHANGED <<changesVars, capsVars, docVars, rangeVars>>

\* lines 61-71: new AppxManifest(path) called directly
New(path, file) ==
    LET made == AppxManifest(path, file) IN
    IF ~made.ok THEN
        Throws("new", path, FALSE, file, 1, made.thrown)
    ELSE
        /\ Len(insts) < MaxInst
        /\ insts' = Append(insts, Instance(path, "new"))
        /\ ret' = Call("new", path, FALSE, NoKeys, file, 1, "ok",
                       Len(insts) + 1, NoThrow, {})
        /\ UNCHANGED <<manifestCache, lastGot, awaiting, swept>>
        /\ UNCHANGED <<changesVars, capsVars, docVars, rangeVars>>

(***************************************************************************)
(* AppxManifest.js: purgeCache.                                            *)
(***************************************************************************)
\* the keys of a purgeCache argument
KeySet(cacheKeys) == cacheKeys.keys

\* a purge that does nothing when it gets no keys
PurgedCacheKeepsOnNoArg(cache, cacheKeys) ==
    [p \in Paths |-> IF p \in KeySet(cacheKeys) THEN 0 ELSE cache[p]]

\* a purge that empties the cache whatever it is given
PurgedCacheClearsAll(cache, cacheKeys) ==
    [p \in Paths |-> 0]

\* lines 142-153: the cache purgeCache(cacheKeys) leaves
PurgedCache(cache, cacheKeys) ==
    IF cacheKeys.kind = "undefined" THEN
        [p \in Paths |-> 0]
    ELSE
        [p \in Paths |-> IF p \in KeySet(cacheKeys) THEN 0 ELSE cache[p]]

\* lines 142-153: AppxManifest.purgeCache(cacheKeys)
PurgeCache(cacheKeys) ==
    /\ manifestCache' = PurgedCache(manifestCache, cacheKeys)
    /\ ret' = Call("purge", "", FALSE, cacheKeys, NoFile, 0, "ok", 0, NoThrow,
                   {p \in Paths : manifestCache[p] # 0 /\ manifestCache'[p] = 0})
    /\ lastGot' = [p \in Paths |->
                     IF cacheKeys.kind = "undefined" \/ p \in KeySet(cacheKeys)
                     THEN 0 ELSE lastGot[p]]
    /\ awaiting' = IF cacheKeys.kind = "undefined" THEN Paths ELSE awaiting
    /\ swept' = IF cacheKeys.kind = "undefined"
                THEN swept \cup ({manifestCache[p] : p \in Paths} \ {0})
                ELSE swept
    /\ UNCHANGED insts
    /\ UNCHANGED <<changesVars, capsVars, docVars, rangeVars>>

(***************************************************************************)
(* AppxManifest.js: processChanges.                                        *)
(***************************************************************************)
\* longest array handed to processChanges
MaxChanges == 2

\* a field that was never set
Undefined == "undefined"

\* line 110: the generic target processChanges demultiplexes
GenericTarget == "package.appxmanifest"

\* line 42: const MANIFEST
MANIFEST == "package.windows10.appxmanifest"

\* the change instructions of the model
Changes ==
    [target : {GenericTarget, MANIFEST, "config.xml"},
     parent : {"/Package/Capabilities", "/*"},
     after : {"Identity"},
     xmls : {Undefined, "<Capability Name=\"webcam\" />"},
     versions : {">=10.0.0"},
     deviceTarget : {Undefined, "phone"}]

\* a replacement that forgets the device target
demuxChangeWithoutDeviceTarget(change) ==
    [target |-> MANIFEST,
     parent |-> change.parent,
     after |-> change.after,
     xmls |-> change.xmls,
     versions |-> change.versions,
     deviceTarget |-> Undefined]

\* lines 492-501: the replacement of one generic change
demuxChangeWithSubsts(change) ==
    [target |-> MANIFEST,
     parent |-> change.parent,
     after |-> change.after,
     xmls |-> change.xmls,
     versions |-> change.versions,
     deviceTarget |-> change.deviceTarget]

\* a test that also takes the concrete manifest target for a generic one
hasAnyManifestChanges(list) ==
    \E i \in 1..Len(list) : list[i].target \in {GenericTarget, MANIFEST}

\* lines 109-111: changes.some(change => change.target === 'package.appxmanifest')
hasManifestChanges(list) ==
    \E i \in 1..Len(list) : list[i].target = GenericTarget

\* lines 122-131: the forEach over oldChanges from index i on; acc is the
\* new changes array built so far (push, or concat of the one replacement)
RECURSIVE demuxFrom(_, _, _)
demuxFrom(oldChanges, i, acc) ==
    IF i > Len(oldChanges) THEN acc
    ELSE IF oldChanges[i].target # GenericTarget
         THEN demuxFrom(oldChanges, i + 1, Append(acc, oldChanges[i]))
         ELSE demuxFrom(oldChanges, i + 1,
                        acc \o <<demuxChangeWithSubsts(oldChanges[i])>>)

\* lines 108-134: the array processChanges returns; same tells whether it
\* is the argument array itself (line 114) or a new array (line 120)
processChanges(list) ==
    IF ~hasManifestChanges(list)
    THEN [called |-> TRUE, same |-> TRUE, list |-> list]
    ELSE [called |-> TRUE, same |-> FALSE, list |-> demuxFrom(list, 1, <<>>)]

NotProcessed == [called |-> FALSE, same |-> FALSE, list |-> <<>>]

\* lines 108-134: AppxManifest.processChanges(changes)
ProcessChanges ==
    /\ ~processed.called
    /\ processed' = processChanges(changes)
    /\ UNCHANGED <<changes, cacheVars, capsVars, docVars, rangeVars>>

(***************************************************************************)
(* AppxManifest.js: the Capabilities element and writeToString.            *)
(***************************************************************************)
\* number of capability elements the model creates in one document
MaxCaps == 4

\* lines 31-34
CAPS_NEEDING_UAPNS ==
    {"documentsLibrary", "picturesLibrary", "videosLibrary", "musicLibrary",
     "enterpriseAuthentication", "sharedUserCertificates", "removableStorage",
     "appointments", "contacts", "userAccountInformation", "phoneCall",
     "blockedChatMessages", "objects3D"}

\* a tag is the sequence of its parts between ':' characters
CapabilityTags == {<<"Capability">>, <<"uap", "Capability">>, <<"DeviceCapability">>}

CapabilityNames == {"internetClient", "documentsLibrary"}

\* an et.Element under Capabilities
Element(id, tag, name) == [id |-> id, tag |-> tag, Name |-> name]

\* line 562: tag.split(':').pop()
extractLocalName(tag) == tag[Len(tag)]

\* the order of JavaScript's > on the local names of the model
Ordinal(localName) ==
    CASE localName = "Capability" -> 1
      [] localName = "DeviceCapability" -> 2

\* a comparator with the two answers exchanged
compareDescending(a, b) ==
    IF Ordinal(extractLocalName(a.tag)) > Ordinal(extractLocalName(b.tag))
    THEN -1 ELSE 1

\* lines 573-575: the comparator handed to sort; it never returns 0
compare(a, b) ==
    IF Ordinal(extractLocalName(a.tag)) > Ordinal(extractLocalName(b.tag))
    THEN 1 ELSE -1

\* line 573: Array.prototype.sort(compare). compare answers -1 both ways for
\* two elements of equal local name, so it is not a consistent comparator
\* and the order of such elements is whatever the engine's algorithm
\* leaves (insertion sort keeps it, V8's TimSort reverses such a run):
\* every arrangement that puts no element after one compare ranks above it.
SortOutcomes(list) ==
    {s \in [1..Len(list) -> {list[i] : i \in 1..Len(list)}] :
        /\ \A i, j \in 1..Len(list) : i # j => s[i] # s[j]
        /\ \A i, j \in 1..Len(list) : i < j => compare(s[i], s[j]) # 1}

\* line 651: el.tag.indexOf('uap:') !== 0 is the negation
startsWithUap(tag) == Len(tag) >= 2 /\ tag[1] = "uap"

\* a write that leaves every tag as it finds it
ensureUapPrefixedNothing(list) == list

\* lines 648-655
ensureUapPrefixedCapabilities(list) ==
    [i \in 1..Len(list) |->
        IF list[i].Name \in CAPS_NEEDING_UAPNS /\ ~startsWithUap(list[i].tag)
        THEN [list[i] EXCEPT !.tag = <<"uap">> \o list[i].tag]
        ELSE list[i]]

\* a remove that takes every element of the same Name along
removeByName(list, element) ==
    SelectSeq(list, LAMBDA e : e.Name # element.Name)

\* lines 569, 667: Element.remove(element) of elementtree: the child list
\* becomes a new list without the elements that have element's _id
remove(list, element) ==
    SelectSeq(list, LAMBDA e : e.id # element.id)

\* lines 663-671: the forEach over the child list as it was when the loop
\* started; list is the current child list, unique the names seen
RECURSIVE uniqueFrom(_, _, _, _)
uniqueFrom(snapshot, i, list, uniqueCapabilities) ==
    IF i > Len(snapshot) THEN list
    ELSE IF snapshot[i].Name \in uniqueCapabilities
         THEN uniqueFrom(snapshot, i + 1, remove(list, snapshot[i]),
                         uniqueCapabilities)
         ELSE uniqueFrom(snapshot, i + 1, list,
                         uniqueCapabilities \cup {snapshot[i].Name})

\* a loop that walks the child list while remove shortens it
RECURSIVE uniqueLive(_, _, _)
uniqueLive(list, i, uniqueCapabilities) ==
    IF i > Len(list) THEN list
    ELSE IF list[i].Name \in uniqueCapabilities
         THEN uniqueLive(remove(list, list[i]), i + 1, uniqueCapabilities)
         ELSE uniqueLive(list, i + 1, uniqueCapabilities \cup {list[i].Name})

\* a loop that keeps the last element of each Name
ensureUniqueCapabilitiesKeepLast(list) ==
    LET keep == {i \in 1..Len(list) :
                    \A j \in (i + 1)..Len(list) : list[j].Name # list[i].Name}
    IN SelectSeq(list, LAMBDA e : \E i \in keep : list[i].id = e.id)

ensureUniqueCapabilitiesLive(list) == uniqueLive(list, 1, {})

\* lines 661-672
ensureUniqueCapabilities(list) == uniqueFrom(list, 1, list, {})

\* lines 557-579: every child is removed, the array is sorted and the
\* elements are appended again: the child lists it can leave
sortCapabilities(list) == SortOutcomes(list)

CapsCall(op, outcome) == [op |-> op, outcome |-> outcome]

\* lines 636-642: writeToString; without a Capabilities element find
\* returns null and capabilities.getchildren() throws a TypeError
WriteToString ==
    /\ IF ~hasCapabilities THEN
           /\ wret' = CapsCall("write", "throw")
           /\ UNCHANGED children
       ELSE
           /\ wret' = CapsCall("write", "ok")
           /\ children' \in sortCapabilities(
                  ensureUniqueCapabilities(ensureUapPrefixedCapabilities(children)))
    /\ beforeWrite' = children
    /\ UNCHANGED <<hasCapabilities, nextId, cacheVars, changesVars, docVars, rangeVars>>

\* capabilities.append(new et.Element(tag, { Name: name })), as the munger
\* of plugin changes and AppxManifest.spec.js:159 do
AppendCapability(tag, name) ==
    /\ hasCapabilities
    /\ nextId <= MaxCaps
    /\ children' = Append(children, Element(nextId, tag, name))
    /\ nextId' = nextId + 1
    /\ wret' = CapsCall("append", "ok")
    /\ UNCHANGED <<hasCapabilities, beforeWrite, cacheVars, changesVars, docVars, rangeVars>>

(***************************************************************************)
(* AppxManifest.js: the views of one manifest document and their setters.  *)
(* A string is the sequence of its characters; undefined is a value of its *)
(* own. A description, which may be thousands of characters long, is the   *)
(* sequence of its runs: n times the character ch.                         *)
(***************************************************************************)
\* number of setter calls made on one document
MaxCalls == 2

\* the value of a missing argument, attribute or element
UndefinedValue == <<"undefined">>

\* !value for a string argument
Falsy(value) == value = <<>> \/ value = UndefinedValue

Run(ch, n) == [ch |-> ch, n |-> n]

\* a missing description argument
UndefinedText == <<Run("undefined", 0)>>

\* !text || text.length === 0 for a description argument
FalsyText(text) == text = <<>> \/ text = UndefinedText

\* the values a template manifest holds before any setter is called
Old == <<"o", "l", "d">>

\* names handed to the name setters
NameArgs == {UndefinedValue, <<>>, <<"A", "p", "p">>}

\* line 298: the longest Application Id that is stored whole
IdLimit == 64

\* ids handed to setId: the last one is one character over the limit
IdArgs == NameArgs \cup {[i \in 1..(IdLimit + 1) |-> "x"]}

\* versions handed to setVersion: '1', '1.2', '1.2.3', '1.2.3.4'
VersionArgs ==
    {UndefinedValue, <<>>,
     <<"1">>,
     <<"1", ".", "2">>,
     <<"1", ".", "2", ".", "3">>,
     <<"1", ".", "2", ".", "3", ".", "4">>}

\* colours handed to setBackgroundColor: a CSS name, '#fff', '0xff112233'
ColorArgs ==
    {UndefinedValue, <<>>,
     <<"r", "e", "d">>,
     <<"#", "f", "f", "f">>,
     <<"0", "x", "f", "f", "1", "1", "2", "2", "3", "3">>}

\* line 529: the longest description that is stored whole
DescriptionLimit == 2048

\* descriptions handed to setDescription: short, with a line break and a
\* tab, one character over the limit, and a tab ahead of as many characters
\* as the limit
DescriptionArgs ==
    {UndefinedText, <<>>,
     <<Run("a", 5)>>,
     <<Run("a", 2), Run("\n", 1), Run("\t", 1), Run("a", 2)>>,
     <<Run("a", DescriptionLimit + 1)>>,
     <<Run("\t", 1), Run("a", DescriptionLimit)>>}

\* line 308: the start page that stands in for a missing one
DefaultStartPage ==
    <<"w", "w", "w", "/", "i", "n", "d", "e", "x", ".", "h", "t", "m", "l">>

\* the rules argument of setAccessRules: not given, or an array of origins
RuleArgs ==
    {UndefinedValue, <<>>,
     <<"https://a.example/*">>,
     <<"https://a.example/*", "https://b.example/*">>}

\* the uapVersionInfo objects handed to setDependencies
TargetDeviceFamilies ==
    {[Name |-> "Windows.Universal", MinVersion |-> "10.0.9910.0",
      MaxVersionTested |-> "10.0.9917.0"],
     [Name |-> "Windows.Desktop", MinVersion |-> "10.0.9910.0",
      MaxVersionTested |-> "10.0.9910.0"]}

\* a child a parsed Dependencies element may hold already
OldDependency ==
    [Name |-> "Windows.Mobile", MinVersion |-> "10.0.0.0",
     MaxVersionTested |-> "10.0.0.0"]

\* the dependencies argument: not given, or an array
NoDependencies == [given |-> FALSE, list |-> <<>>]

DependencyArgs ==
    {NoDependencies}
    \cup {[given |-> TRUE, list |-> l] :
            l \in {<<>>}
                  \cup {<<f>> : f \in TargetDeviceFamilies}
                  \cup {<<f, g>> : f, g \in TargetDeviceFamilies}}

\* the outcome of a call: the document it leaves, what it threw and what it
\* returned ("this", the "view" the setter belongs to, or "undefined")
Outcome(d, thrown, returns) == [doc |-> d, thrown |-> thrown, returns |-> returns]

NotThrown == [class |-> "none", about |-> "none"]

\* lines 157, 173, 215, 279, 348: throw new Error('Failed to find ... node')
NodeMissing == [class |-> "Error", about |-> "node"]

\* lines 180-472: throw new TypeError('... must be non-empty ...')
ValueMissing == [class |-> "TypeError", about |-> "value"]

\* line 164: throw new Error('Argument for "setPhoneProductId" must be defined')
ArgumentMissing == [class |-> "Error", about |-> "value"]

\* the TypeError of the engine on a property read of null or undefined
NullDereference == [class |-> "TypeError", about |-> "null"]

\* lines 163-167
setPhoneProductId(d, id) ==
    IF ~d.hasPhoneIdentity THEN Outcome(d, NodeMissing, "none")
    ELSE IF Falsy(id) THEN Outcome(d, ArgumentMissing, "none")
    ELSE Outcome([d EXCEPT !.PhoneIdentity.PhoneProductId = id], NotThrown, "view")

\* a setName that stores whatever it is given
setNameUnchecked(d, name) ==
    IF ~d.hasIdentity THEN Outcome(d, NodeMissing, "none")
    ELSE Outcome([d EXCEPT !.Identity.Name = name], NotThrown, "view")

\* lines 179-183
setName(d, name) ==
    IF ~d.hasIdentity THEN Outcome(d, NodeMissing, "none")
    ELSE IF Falsy(name) THEN Outcome(d, ValueMissing, "none")
    ELSE Outcome([d EXCEPT !.Identity.Name = name], NotThrown, "view")

\* lines 187-191
setPublisher(d, publisherId) ==
    IF ~d.hasIdentity THEN Outcome(d, NodeMissing, "none")
    ELSE IF Falsy(publisherId) THEN Outcome(d, ValueMissing, "none")
    ELSE Outcome([d EXCEPT !.Identity.Publisher = publisherId], NotThrown, "view")

IsDigit(ch) == ch \in {"0", "1", "2", "3", "4", "5", "6", "7", "8", "9"}

\* lines 199-200: version.match(/\.\d/g), the positions of its matches
matches(version) ==
    {i \in 1..(Len(version) - 1) : version[i] = "." /\ IsDigit(version[i + 1])}

\* lines 201-203: while (numVersionComponents++ < 4) version += '.0'
RECURSIVE pad(_, _)
pad(version, numVersionComponents) ==
    IF numVersionComponents < 4
    THEN pad(version \o <<".", "0">>, numVersionComponents + 1)
    ELSE version

\* lines 195-208
setVersion(d, version) ==
    IF ~d.hasIdentity THEN Outcome(d, NodeMissing, "none")
    ELSE IF Falsy(version) THEN Outcome(d, ValueMissing, "none")
    ELSE LET stored == IF matches(version) # {}
                       THEN pad(version, Cardinality(matches(version)) + 1)
                       ELSE version
         IN Outcome([d EXCEPT !.Identity.Version = stored], NotThrown, "view")

\* lines 222-234: Properties.setDisplayName; a missing DisplayName element
\* is created
setPropertiesDisplayName(d, name) ==
    IF ~d.hasProperties THEN Outcome(d, NodeMissing, "none")
    ELSE IF Falsy(name) THEN Outcome(d, ValueMissing, "none")
    ELSE Outcome([d EXCEPT !.Properties.DisplayName = name], NotThrown, "view")

\* lines 239-251
setPublisherDisplayName(d, name) ==
    IF ~d.hasProperties THEN Outcome(d, NodeMissing, "none")
    ELSE IF Falsy(name) THEN Outcome(d, ValueMissing, "none")
    ELSE Outcome([d EXCEPT !.Properties.PublisherDisplayName = name],
                 NotThrown, "view")

\* line 298: id.substr(0, 64)
substr(s, length) == SubSeq(s, 1, IF Len(s) < length THEN Len(s) ELSE length)

\* lines 294-301
setId(d, id) ==
    IF ~d.hasApplication THEN Outcome(d, NodeMissing, "none")
    ELSE IF Falsy(id) THEN Outcome(d, ValueMissing, "none")
    ELSE LET appId == IF Len(id) <= IdLimit THEN id ELSE substr(id, IdLimit)
         IN Outcome([d EXCEPT !.Application.Id = appId], NotThrown, "view")

\* lines 361-365: DefaultTile.setShortName; getDefaultTitle does not check
\* that it found the element
setShortName(d, name) ==
    IF ~d.hasVisualElements THEN Outcome(d, NodeMissing, "none")
    ELSE IF Falsy(name) THEN Outcome(d, ValueMissing, "none")
    ELSE IF ~d.hasDefaultTile THEN Outcome(d, NullDereference, "none")
    ELSE Outcome([d EXCEPT !.DefaultTile.ShortName = name], NotThrown, "view")

\* lines 373-377: VisualElements.setDisplayName
setVisualElementsDisplayName(d, name) ==
    IF ~d.hasVisualElements THEN Outcome(d, NodeMissing, "none")
    ELSE IF Falsy(name) THEN Outcome(d, ValueMissing, "none")
    ELSE Outcome([d EXCEPT !.VisualElements.DisplayName = name], NotThrown, "view")

\* the first position at which pattern occurs in s, 0 if there is none
indexOf(s, pattern) ==
    LET at == {i \in 1..(Len(s) - Len(pattern) + 1) :
                    SubSeq(s, i, i + Len(pattern) - 1) = pattern}
    IN IF at = {} THEN 0 ELSE CHOOSE i \in at : \A j \in at : i <= j

\* lines 503-505
isCSSColorName(color) ==
    indexOf(color, <<"0", "x">>) = 0 /\ indexOf(color, <<"#">>) = 0

\* String.prototype.replace(pattern, ''): the first occurrence is dropped
replace(s, pattern) ==
    LET i == indexOf(s, pattern)
    IN IF i = 0 THEN s
       ELSE SubSeq(s, 1, i - 1) \o SubSeq(s, i + Len(pattern), Len(s))

\* lines 507-522
refineColor(color) ==
    IF isCSSColorName(color) THEN color
    ELSE LET hex == replace(replace(color, <<"0", "x">>), <<"#">>)
             six == IF Len(hex) = 3
                    THEN <<hex[1], hex[1], hex[2], hex[2], hex[3], hex[3]>>
                    ELSE hex
             rgb == IF Len(six) = 8 THEN SubSeq(six, 3, 8) ELSE six
         IN <<"#">> \o rgb

\* lines 420-425
setBackgroundColor(d, color) ==
    IF ~d.hasVisualElements THEN Outcome(d, NodeMissing, "none")
    ELSE IF Falsy(color) THEN Outcome(d, ValueMissing, "none")
    ELSE Outcome([d EXCEPT !.VisualElements.BackgroundColor = refineColor(color)],
                 NotThrown, "view")

\* text.length of a description
RECURSIVE length(_)
length(text) == IF text = <<>> THEN 0 ELSE text[1].n + length(Tail(text))

\* line 530: text.substr(0, 2048) of a description
RECURSIVE substrText(_, _)
substrText(text, limit) ==
    IF text = <<>> \/ limit = 0 THEN <<>>
    ELSE IF text[1].n <= limit
         THEN <<text[1]>> \o substrText(Tail(text), limit - text[1].n)
         ELSE <<Run(text[1].ch, limit)>>

\* lines 524-535
processDescription(text) ==
    LET result == IF length(text) > DescriptionLimit
                  THEN substrText(text, DescriptionLimit)
                  ELSE text
    IN [i \in 1..Len(result) |->
            IF result[i].ch \in {"\n", "\r"} THEN Run(" ", result[i].n)
            ELSE IF result[i].ch = "\t" THEN Run(" ", 4 * result[i].n)
            ELSE result[i]]

\* lines 471-476: VisualElements.setDescription
setDescription(d, description) ==
    IF ~d.hasVisualElements THEN Outcome(d, NodeMissing, "none")
    ELSE IF FalsyText(description) THEN Outcome(d, ValueMissing, "none")
    ELSE Outcome([d EXCEPT !.VisualElements.Description =
                                processDescription(description)],
                 NotThrown, "view")

\* lines 256-273: Properties.setDescription; an empty text removes the
\* Description element, any other text is stored in one
setPropertiesDescription(d, text) ==
    IF ~d.hasProperties THEN Outcome(d, NodeMissing, "none")
    ELSE IF FalsyText(text)
    THEN Outcome([d EXCEPT !.Properties.Description = UndefinedText],
                 NotThrown, "view")
    ELSE Outcome([d EXCEPT !.Properties.Description = processDescription(text)],
                 NotThrown, "view")

\* lines 307-311
setStartPage(d, page) ==
    IF ~d.hasApplication THEN Outcome(d, NodeMissing, "none")
    ELSE LET stored == IF Falsy(page) THEN DefaultStartPage ELSE page
         IN Outcome([d EXCEPT !.Application.StartPage = stored], NotThrown, "view")

\* lines 321-341: the old rules element is removed; without rules the
\* function returns nothing (line 330), otherwise a new element gets one
\* uap:Rule per rule
setAccessRules(d, rules) ==
    IF ~d.hasApplication THEN Outcome(d, NodeMissing, "none")
    ELSE IF Falsy(rules)
    THEN Outcome([d EXCEPT !.Application.Rules = <<>>], NotThrown, "undefined")
    ELSE Outcome([d EXCEPT !.Application.Rules =
                    [i \in 1..Len(rules) |->
                        [Match |-> rules[i], Type |-> "include",
                         WindowsRuntimeAccess |-> "all"]]],
                 NotThrown, "view")

\* lines 538-541
setPackageName(d, name) ==
    LET r == setName(d, name)
    IN IF r.thrown # NotThrown THEN r ELSE Outcome(r.doc, NotThrown, "this")

\* a setAppName that forgets the tile
setAppNameWithoutTile(d, name) ==
    LET r1 == setPropertiesDisplayName(d, name)
        r2 == setVisualElementsDisplayName(r1.doc, name)
    IN IF r1.thrown # NotThrown THEN r1
       ELSE IF r2.thrown # NotThrown THEN r2
       ELSE Outcome(r2.doc, NotThrown, "this")

\* lines 544-550: the three setters run in this order; one that throws
\* leaves what the ones before it stored
setAppName(d, name) ==
    LET r1 == setPropertiesDisplayName(d, name)
        r2 == setVisualElementsDisplayName(r1.doc, name)
        r3 == setShortName(r2.doc, name)
    IN IF r1.thrown # NotThrown THEN r1
       ELSE IF r2.thrown # NotThrown THEN r2
       ELSE IF r3.thrown # NotThrown THEN r3
       ELSE Outcome(r3.doc, NotThrown, "this")

\* lines 603-623: with nothing to set and a Dependencies element, the
\* element is removed (606-609). Otherwise a missing element is created and
\* appended (611-614), a non-empty one is cleared (616-618), and
\* dependencies.forEach (620) appends one TargetDeviceFamily per entry, or
\* throws a TypeError when dependencies is undefined; the function then
\* ends without a return statement.
setDependencies(d, dependencies) ==
    IF (~dependencies.given \/ Len(dependencies.list) = 0) /\ d.hasDependencies
    THEN Outcome([d EXCEPT !.hasDependencies = FALSE, !.Dependencies = <<>>],
                 NotThrown, "this")
    ELSE LET ready == [d EXCEPT !.hasDependencies = TRUE, !.Dependencies = <<>>]
         IN IF ~dependencies.given
            THEN Outcome(ready, NullDereference, "none")
            ELSE Outcome([ready EXCEPT !.Dependencies = dependencies.list],
                         NotThrown, "undefined")

\* a call as its caller sees it: the setter, its argument, the document it
\* found and the outcome
SetterCall(op, arg, dependencies, before, thrown, returns) ==
    [op |-> op, arg |-> arg, dependencies |-> dependencies,
     before |-> before, thrown |-> thrown, returns |-> returns]

\* one call of a setter: r is its outcome on the current document
Apply(op, arg, dependencies, r) ==
    /\ calls < MaxCalls
    /\ calls' = calls + 1
    /\ doc' = r.doc
    /\ sret' = SetterCall(op, arg, dependencies, doc, r.thrown, r.returns)
    /\ UNCHANGED <<cacheVars, changesVars, capsVars, rangeVars>>

\* manifest.getPhoneIdentity().setPhoneProductId(id)
SetPhoneProductId(id) ==
    Apply("setPhoneProductId", id, NoDependencies, setPhoneProductId(doc, id))

\* manifest.getIdentity().setName(name)
SetName(name) ==
    Apply("setName", name, NoDependencies, setName(doc, name))

\* manifest.getIdentity().setPublisher(publisherId)
SetPublisher(publisherId) ==
    Apply("setPublisher", publisherId, NoDependencies,
          setPublisher(doc, publisherId))

\* manifest.getIdentity().setVersion(version)
SetVersion(version) ==
    Apply("setVersion", version, NoDependencies, setVersion(doc, version))

\* manifest.getProperties().setDisplayName(name)
SetPropertiesDisplayName(name) ==
    Apply("Properties.setDisplayName", name, NoDependencies,
          setPropertiesDisplayName(doc, name))

\* manifest.getProperties().setPublisherDisplayName(name)
SetPublisherDisplayName(name) ==
    Apply("setPublisherDisplayName", name, NoDependencies,
          setPublisherDisplayName(doc, name))

\* manifest.getApplication().setId(id)
SetId(id) ==
    Apply("setId", id, NoDependencies, setId(doc, id))

\* manifest.getVisualElements().getDefaultTitle().setShortName(name)
SetShortName(name) ==
    Apply("setShortName", name, NoDependencies, setShortName(doc, name))

\* manifest.getVisualElements().setDisplayName(name)
SetVisualElementsDisplayName(name) ==
    Apply("VisualElements.setDisplayName", name, NoDependencies,
          setVisualElementsDisplayName(doc, name))

\* manifest.getVisualElements().setBackgroundColor(color)
SetBackgroundColor(color) ==
    Apply("setBackgroundColor", color, NoDependencies,
          setBackgroundColor(doc, color))

\* manifest.getVisualElements().setDescription(description)
SetDescription(description) ==
    Apply("VisualElements.setDescription", description, NoDependencies,
          setDescription(doc, description))

\* manifest.getProperties().setDescription(text)
SetPropertiesDescription(text) ==
    Apply("Properties.setDescription", text, NoDependencies,
          setPropertiesDescription(doc, text))

\* manifest.getApplication().setStartPage(page)
SetStartPage(page) ==
    Apply("setStartPage", page, NoDependencies, setStartPage(doc, page))

\* manifest.getApplication().setAccessRules(rules)
SetAccessRules(rules) ==
    Apply("setAccessRules", rules, NoDependencies, setAccessRules(doc, rules))

\* manifest.setPackageName(name)
SetPackageName(name) ==
    Apply("setPackageName", name, NoDependencies, setPackageName(doc, name))

\* manifest.setAppName(name)
SetAppName(name) ==
    Apply("setAppName", name, NoDependencies, setAppName(doc, name))

\* manifest.setDependencies(dependencies)
SetDependencies(dependencies) ==
    Apply("setDependencies", UndefinedValue, dependencies,
          setDependencies(doc, dependencies))

(***************************************************************************)
(* WindowsConfigParser.js: getAllMinMaxUAPVersions, the version range      *)
(* resolver. A preference name is the sequence of its parts between '-'    *)
(* characters, a version string the sequence of its parts between '.'      *)
(* characters.                                                             *)
(***************************************************************************)
\* longest preference sequence handed to the resolver
MaxPrefs == 3

\* the universal family
UniversalFamily == "Windows.Universal"

Families == {UniversalFamily, "Windows.Desktop", "Microsoft.Xbox"}

\* the two keys of a family's range
BoundKeys == {"MinVersion", "MaxVersionTested"}

\* preference names: a bound of a family, or a name that is neither
PreferenceNames ==
    {<<f, k>> : f \in Families, k \in BoundKeys}
    \cup {<<UniversalFamily, "minversion">>}

\* preference values: '10.0.9910.0', '10.0.9917.0', '10.0.9910.f'
PreferenceValues ==
    {<<"10", "0", "9910", "0">>,
     <<"10", "0", "9917", "0">>,
     <<"10", "0", "9910", "f">>}

Preferences == [name : PreferenceNames, value : PreferenceValues]

\* the baseline version, a value no preference of the model carries
BASE_UAP_VERSION == <<"10", "0", "10240", "0">>

\* a bound that no preference has supplied yet
Unset == <<>>

\* a component that reads as a non-negative integer
IsInteger(component) == component \in {"0", "10", "9910", "9917", "10240"}

\* a parse that looks at the first three components only
isVersionLax(value) ==
    Len(value) = 4 /\ \A i \in 1..3 : IsInteger(value[i])

\* a version string is four integer components
isVersion(value) ==
    Len(value) = 4 /\ \A i \in 1..4 : IsInteger(value[i])

\* the name is '<Family>-MinVersion' or '<Family>-MaxVersionTested'
isBoundName(name) == Len(name) = 2 /\ name[2] \in BoundKeys

\* the place of a family in the range records, 0 if it has none
indexOfFamily(bag, family) ==
    IF \E i \in 1..Len(bag) : bag[i].Name = family
    THEN CHOOSE i \in 1..Len(bag) : bag[i].Name = family
    ELSE 0

\* the range records after one more bound: a family seen for the first time
\* gets a new record behind the others
withBound(bag, family, key, version) ==
    LET known == IF indexOfFamily(bag, family) # 0 THEN bag
                 ELSE Append(bag, [Name |-> family, MinVersion |-> Unset,
                                   MaxVersionTested |-> Unset])
        i == indexOfFamily(known, family)
    IN IF key = "MinVersion"
       THEN [known EXCEPT ![i].MinVersion = version]
       ELSE [known EXCEPT ![i].MaxVersionTested = version]

\* records that keep a missing bound missing
fillNothing(bag) == bag

\* a missing bound is set equal to the supplied one
fillBounds(bag) ==
    [i \in 1..Len(bag) |->
        IF bag[i].MaxVersionTested = Unset
        THEN [bag[i] EXCEPT !.MaxVersionTested = bag[i].MinVersion]
        ELSE IF bag[i].MinVersion = Unset
        THEN [bag[i] EXCEPT !.MinVersion = bag[i].MaxVersionTested]
        ELSE bag[i]]

\* a baseline only for an input that names no family at all
needsBaselineWhenEmpty(bag) == bag = <<>>

\* the universal family never appeared
needsBaseline(bag) == indexOfFamily(bag, UniversalFamily) = 0

BaselineEntry ==
    [Name |-> UniversalFamily, MinVersion |-> BASE_UAP_VERSION,
     MaxVersionTested |-> BASE_UAP_VERSION]

\* a synthesized entry behind the others
withBaselineLast(bag) ==
    IF needsBaseline(bag) THEN Append(bag, BaselineEntry) ELSE bag

\* the synthesized universal entry is the first entry
withBaseline(bag) ==
    IF needsBaseline(bag) THEN <<BaselineEntry>> \o bag ELSE bag

RangeResult(called, thrown, entries) ==
    [called |-> called, thrown |-> thrown, entries |-> entries]

\* the preferences from index i on are consumed into the range records; a
\* bound whose value is no version ends the call with a RangeError
RECURSIVE consume(_, _, _)
consume(prefs, i, bag) ==
    IF i > Len(prefs)
    THEN RangeResult(TRUE, "none", withBaseline(fillBounds(bag)))
    ELSE IF ~isBoundName(prefs[i].name)
    THEN consume(prefs, i + 1, bag)
    ELSE IF ~isVersion(prefs[i].value)
    THEN RangeResult(TRUE, "RangeError", <<>>)
    ELSE consume(prefs, i + 1,
                 withBound(bag, prefs[i].name[1], prefs[i].name[2],
                           prefs[i].value))

getAllMinMaxUAPVersions(prefs) == consume(prefs, 1, <<>>)

NotResolved == RangeResult(FALSE, "none", <<>>)

\* config.getAllMinMaxUAPVersions() over the preferences of the config file
GetAllMinMaxUAPVersions ==
    /\ ~resolved.called
    /\ resolved' = getAllMinMaxUAPVersions(preferences)
    /\ UNCHANGED <<preferences, cacheVars, changesVars, capsVars, docVars>>

(***************************************************************************)
(* Specifications.                                                         *)
(***************************************************************************)
\* a process that has loaded no manifest
CacheInit ==
    /\ manifestCache = [p \in Paths |-> 0]
    /\ insts = <<>>
    /\ ret = Call("init", "", FALSE, NoKeys, NoFile, 0, "ok", 0, NoThrow, {})
    /\ lastGot = [p \in Paths |-> 0]
    /\ awaiting = {}
    /\ swept = {}

\* no processChanges call is being looked at
ChangesIdle ==
    /\ changes = <<>>
    /\ processed = NotProcessed

\* any array of at most MaxChanges change instructions
ChangesInit ==
    /\ changes \in UNION {[1..n -> Changes] : n \in 0..MaxChanges}
    /\ processed = NotProcessed

\* no document is being looked at
CapsIdle ==
    /\ hasCapabilities = FALSE
    /\ children = <<>>
    /\ nextId = 1
    /\ wret = CapsCall("init", "ok")
    /\ beforeWrite = <<>>

\* a parsed document: its Capabilities element, if it has one, holds any
\* list of elements; elementtree numbered them as it created them
CapsInit ==
    /\ hasCapabilities \in BOOLEAN
    /\ \E n \in 0..MaxCaps :
         \E tags \in [1..n -> CapabilityTags], names \in [1..n -> CapabilityNames] :
            /\ hasCapabilities \/ n = 0
            /\ children = [i \in 1..n |-> Element(i, tags[i], names[i])]
            /\ nextId = n + 1
    /\ wret = CapsCall("init", "ok")
    /\ beforeWrite = <<>>

\* the manifest of the project template: every element the views look for,
\* holding the template's values
Template ==
    [hasIdentity |-> TRUE,
     Identity |-> [Name |-> Old, Publisher |-> Old,
                   Version |-> <<"1", ".", "0", ".", "0", ".", "0">>],
     hasProperties |-> TRUE,
     Properties |-> [DisplayName |-> Old, PublisherDisplayName |-> Old,
                     Description |-> UndefinedText],
     hasApplication |-> TRUE,
     Application |-> [Id |-> Old, StartPage |-> DefaultStartPage,
                      Rules |-> <<>>],
     hasVisualElements |-> TRUE,
     VisualElements |-> [DisplayName |-> Old, Description |-> <<Run("o", 3)>>,
                         BackgroundColor |-> Old],
     hasDefaultTile |-> TRUE,
     DefaultTile |-> [ShortName |-> Old],
     hasPhoneIdentity |-> TRUE,
     PhoneIdentity |-> [PhoneProductId |-> Old],
     hasDependencies |-> FALSE,
     Dependencies |-> <<>>]

\* the template with one of the elements missing
Incomplete ==
    {[Template EXCEPT !.hasIdentity = FALSE],
     [Template EXCEPT !.hasProperties = FALSE],
     [Template EXCEPT !.hasApplication = FALSE],
     [Template EXCEPT !.hasVisualElements = FALSE],
     [Template EXCEPT !.hasDefaultTile = FALSE],
     [Template EXCEPT !.hasPhoneIdentity = FALSE]}

\* the documents a manifest file can parse to: without a Dependencies
\* element, with an empty one, with one that has a child
Documents ==
    LET shapes == {Template} \cup Incomplete
    IN shapes
       \cup {[d EXCEPT !.hasDependencies = TRUE] : d \in shapes}
       \cup {[d EXCEPT !.hasDependencies = TRUE,
                       !.Dependencies = <<OldDependency>>] : d \in shapes}

NoSetterCall(d) ==
    SetterCall("init", UndefinedValue, NoDependencies, d, NotThrown, "none")

\* no document's setters are being looked at
DocIdle ==
    /\ doc = Template
    /\ sret = NoSetterCall(Template)
    /\ calls = 0

\* a freshly parsed document
DocInit ==
    /\ doc \in Documents
    /\ sret = NoSetterCall(doc)
    /\ calls = 0

\* no getAllMinMaxUAPVersions call is being looked at
RangesIdle ==
    /\ preferences = <<>>
    /\ resolved = NotResolved

\* any sequence of at most MaxPrefs preferences
RangesInit ==
    /\ preferences \in UNION {[1..n -> Preferences] : n \in 0..MaxPrefs}
    /\ resolved = NotResolved

Init == CacheInit /\ ChangesIdle /\ CapsIdle /\ DocIdle /\ RangesIdle

Next ==
    \/ \E fileName \in Paths, ignoreCache \in BOOLEAN, file \in FileContents :
            Get(fileName, ignoreCache, file)
    \/ \E cacheKeys \in KeyArgs : PurgeCache(cacheKeys)

\* the manifest cache: get and purgeCache
Spec == Init /\ [][Next]_vars

LoadNext ==
    \/ \E fileName \in Paths, ignoreCache \in BOOLEAN, file \in FileContents :
            Get(fileName, ignoreCache, file)
    \/ \E path \in Paths, file \in FileContents : New(path, file)

InitLoad == CacheInit /\ ChangesIdle /\ CapsIdle /\ DocIdle /\ RangesIdle

\* loading a manifest: get and the constructor
SpecLoad == InitLoad /\ [][LoadNext]_vars

ChangesNext == ProcessChanges

\* the change demultiplexer
InitChanges == CacheInit /\ ChangesInit /\ CapsIdle /\ DocIdle /\ RangesIdle

SpecChanges == InitChanges /\ [][ChangesNext]_vars

CapsNext ==
    \/ WriteToString
    \/ \E tag \in CapabilityTags, name \in CapabilityNames :
            AppendCapability(tag, name)

\* the capabilities of one manifest document
InitCaps == CacheInit /\ ChangesIdle /\ CapsInit /\ DocIdle /\ RangesIdle

SpecCaps == InitCaps /\ [][CapsNext]_vars

DocNext ==
    \/ \E id \in NameArgs : SetPhoneProductId(id)
    \/ \E name \in NameArgs : SetName(name)
    \/ \E publisherId \in NameArgs : SetPublisher(publisherId)
    \/ \E version \in VersionArgs : SetVersion(version)
    \/ \E name \in NameArgs : SetPropertiesDisplayName(name)
    \/ \E name \in NameArgs : SetPublisherDisplayName(name)
    \/ \E id \in IdArgs : SetId(id)
    \/ \E name \in NameArgs : SetShortName(name)
    \/ \E name \in NameArgs : SetVisualElementsDisplayName(name)
    \/ \E color \in ColorArgs : SetBackgroundColor(color)
    \/ \E description \in DescriptionArgs : SetDescription(description)
    \/ \E text \in DescriptionArgs : SetPropertiesDescription(text)
    \/ \E page \in NameArgs : SetStartPage(page)
    \/ \E rules \in RuleArgs : SetAccessRules(rules)
    \/ \E name \in NameArgs : SetPackageName(name)
    \/ \E name \in NameArgs : SetAppName(name)
    \/ \E dependencies \in DependencyArgs : SetDependencies(dependencies)

\* the setters of one manifest document
InitDoc == CacheInit /\ ChangesIdle /\ CapsIdle /\ DocInit /\ RangesIdle

SpecDoc == InitDoc /\ [][DocNext]_vars

RangesNext == GetAllMinMaxUAPVersions

\* the version range resolver
InitRanges == CacheInit /\ ChangesIdle /\ CapsIdle /\ DocIdle /\ RangesInit

SpecRanges == InitRanges /\ [][RangesNext]_vars

(***************************************************************************)
(* Properties of the manifest cache.                                       *)
(***************************************************************************)
\* the words of a pattern occur in a text, adjacent and in order
ContainsWords(text, words) ==
    \E i \in 0..(Len(text) - Len(words)) :
        \A j \in 1..Len(words) : text[i + j] = words[j]

\* a file that passes both validations of get
Valid(file) == file.parses /\ file.uap /\ file.rootTag = "Package"

\* C1: once get(p) has succeeded through the cache and p has not been purged
\* since, the next get(p) without ignoreCache returns that same instance and
\* calls the parser zero times (so it validates nothing).
C1_CacheHitSameInstance ==
    [][\A p \in Paths :
         (lastGot[p] # 0 /\ ret'.op = "get" /\ ret'.fileName = p
                         /\ ~ret'.ignoreCache)
         => (ret'.outcome = "ok" /\ ret'.value = lastGot[p]
                                 /\ ret'.parses = 0)]_vars

\* a cache hit on a path whose file would no longer pass validation
C1_Witness ==
    /\ ret.op = "get" /\ ~ret.ignoreCache /\ ret.outcome = "ok"
    /\ ret.parses = 0
    /\ ~Valid(ret.file)

\* C2: get(p, true) always parses, leaves the cache as it was, and returns
\* an object that did not exist before the call; an object made by a
\* bypassing get is returned by no other get and is never in the cache.
C2_BypassNeverTouchesCache ==
    [][/\ (ret'.op = "get" /\ ret'.ignoreCache)
            => /\ ret'.parses > 0
               /\ manifestCache' = manifestCache
               /\ (ret'.outcome = "ok" => ret'.value \notin 1..Len(insts))
       /\ (ret'.op = "get" /\ ret'.outcome = "ok"
                           /\ ret'.value \in 1..Len(insts))
            => insts[ret'.value].via # "bypass"
       /\ \A p \in Paths :
            manifestCache'[p] # 0 => insts'[manifestCache'[p]].via # "bypass"]_vars

\* a second bypassing get of a path that also has a cached instance
C2_Witness ==
    /\ ret.op = "get" /\ ret.ignoreCache /\ ret.outcome = "ok"
    /\ manifestCache[ret.fileName] # 0
    /\ manifestCache[ret.fileName] # ret.value
    /\ \E i \in 1..Len(insts) :
            i # ret.value /\ insts[i] = Instance(ret.fileName, "bypass")

\* C3: purgeCache() leaves no entry, and the next get(p) of every path
\* parses again and returns an instance that purgeCache() did not remove.
C3_PurgeAllForcesReparse ==
    [][/\ (ret'.op = "purge" /\ ret'.cacheKeys.kind = "undefined")
            => \A p \in Paths : manifestCache'[p] = 0
       /\ \A p \in awaiting :
            (ret'.op = "get" /\ ret'.fileName = p /\ ~ret'.ignoreCache)
            => /\ ret'.parses > 0
               /\ (ret'.outcome = "ok" => ret'.value \notin swept)]_vars

\* a get that reparsed a path whose cached instance purgeCache() removed
C3_Witness ==
    /\ ret.op = "get" /\ ~ret.ignoreCache /\ ret.outcome = "ok"
    /\ ret.parses = 2
    /\ \E i \in swept : insts[i].path = ret.fileName

\* C4: purgeCache(key) / purgeCache([keys]) removes exactly the entries of
\* those keys; every other entry keeps its instance.
C4_PurgeKeysExact ==
    [][(ret'.op = "purge" /\ ret'.cacheKeys.kind # "undefined")
        => /\ {p \in Paths : manifestCache[p] # 0 /\ manifestCache'[p] = 0}
                = {p \in Paths : manifestCache[p] # 0} \cap KeySet(ret'.cacheKeys)
           /\ \A p \in Paths \ KeySet(ret'.cacheKeys) :
                manifestCache'[p] = manifestCache[p]]_vars

\* a keyed purge that removed one entry, kept another and named an
\* unknown key
C4_Witness ==
    /\ ret.op = "purge" /\ ret.cacheKeys.kind = "array"
    /\ "bar" \in KeySet(ret.cacheKeys)
    /\ ret.removed # {}
    /\ \E p \in Paths : manifestCache[p] # 0

\* the text the unit test expects: /Only Windows 10 is Supported./
ExpectedVersionText == <<"Only", "Windows", "10", "is", "Supported">>

\* C5: a get that is not a cache hit, on a manifest whose root lacks
\* xmlns:uap, throws an Error whose message matches
\* 'Only Windows 10 is Supported.'
C5_UnsupportedVersionIsError ==
    (ret.op = "get" /\ ret.parses > 0 /\ ret.file.parses /\ ~ret.file.uap)
    => /\ ret.outcome = "throw"
       /\ ret.thrown.isError
       /\ ContainsWords(ret.thrown.message, ExpectedVersionText)

\* a format error that names the path
IsFormatError(thrown, path) ==
    /\ thrown.isError
    /\ ContainsWords(thrown.message, <<path>>)
    /\ ContainsWords(thrown.message, <<"incorrect", "root", "node", "name">>)

\* C6 as stated: the constructor and every get that is not a cache hit
\* report a root tag other than 'Package' as a format error naming the path.
C6_WrongRootIsFormatError ==
    (ret.op \in {"get", "new"} /\ ret.parses > 0 /\ ret.file.parses
                               /\ ret.file.rootTag # "Package")
    => /\ ret.outcome = "throw"
       /\ IsFormatError(ret.thrown, ret.fileName)

\* C6 amended: a root tag other than 'Package' always fails and returns and
\* caches nothing; the constructor reports the format error naming the
\* path, and get reports it when the root carries xmlns:uap; without
\* xmlns:uap get fails earlier with its version failure.
C6_WrongRootFails ==
    [][(ret'.op \in {"get", "new"} /\ ret'.parses > 0 /\ ret'.file.parses
                                   /\ ret'.file.rootTag # "Package")
        => /\ ret'.outcome = "throw"
           /\ ret'.value = 0
           /\ manifestCache' = manifestCache
           /\ insts' = insts
           /\ IF ret'.op = "new" \/ ret'.file.uap
              THEN IsFormatError(ret'.thrown, ret'.fileName)
              ELSE ret'.thrown = UnsupportedVersion]_vars

\* get reached the constructor's root check and it failed
C6_Witness ==
    /\ ret.op = "get" /\ ret.parses = 2 /\ ret.file.rootTag = "Other"
    /\ ret.file.uap
    /\ ret.outcome = "throw"
    /\ IsFormatError(ret.thrown, ret.fileName)

\* C24: a get that fails leaves the cache as it was; an entry appears or
\* changes under a key p only by a get(p) that returns, whose file parsed,
\* carried xmlns:uap and had the root 'Package', and the entry is the
\* instance that get returned; every entry under p is an instance of
\* path p.
C24_FailedGetKeepsCache ==
    [][/\ (ret'.op = "get" /\ ret'.outcome = "throw")
            => manifestCache' = manifestCache
       /\ \A p \in Paths :
            (manifestCache'[p] # 0 /\ manifestCache'[p] # manifestCache[p])
            => /\ ret'.op = "get" /\ ret'.fileName = p /\ ret'.outcome = "ok"
               /\ ret'.file.parses
               /\ ret'.file.uap
               /\ ret'.file.rootTag = "Package"
               /\ manifestCache'[p] = ret'.value
       /\ \A p \in Paths :
            manifestCache'[p] # 0 => insts'[manifestCache'[p]].path = p]_vars

\* a get through the cache that failed on the root tag while another path
\* was cached
C24_Witness ==
    /\ ret.op = "get" /\ ~ret.ignoreCache /\ ret.outcome = "throw"
    /\ ret.file.parses /\ ret.file.uap /\ ret.file.rootTag = "Other"
    /\ manifestCache[ret.fileName] = 0
    /\ \E q \in Paths : q # ret.fileName /\ manifestCache[q] # 0

(***************************************************************************)
(* Properties of processChanges.                                           *)
(***************************************************************************)
\* some instruction of the list has the generic target
TargetsGeneric(list) ==
    \E i \in 1..Len(list) : list[i].target = "package.appxmanifest"

\* C7: without an instruction that targets 'package.appxmanifest',
\* processChanges returns the argument array itself, with the same
\* instructions in the same order.
C7_NoGenericReturnsInput ==
    (processed.called /\ ~TargetsGeneric(changes))
    => (processed.same /\ processed.list = changes)

\* the fast path taken on two different instructions, one of them for the
\* concrete manifest
C7_Witness ==
    /\ processed.called /\ processed.same
    /\ Len(changes) >= 2
    /\ changes[1].target = "package.windows10.appxmanifest"
    /\ changes[2].target = "config.xml"

\* C8: with a generic instruction in the input, the result has the length
\* of the input; position i holds input instruction i itself when it is not
\* generic, and otherwise one retargeted to 'package.windows10.appxmanifest'
\* with the parent, after, xmls, versions and deviceTarget of instruction i.
C8_DemuxPositionwise ==
    (processed.called /\ TargetsGeneric(changes))
    => /\ ~processed.same
       /\ Len(processed.list) = Len(changes)
       /\ \A i \in 1..Len(changes) :
            IF changes[i].target # "package.appxmanifest"
            THEN processed.list[i] = changes[i]
            ELSE /\ processed.list[i].target = "package.windows10.appxmanifest"
                 /\ processed.list[i].parent = changes[i].parent
                 /\ processed.list[i].after = changes[i].after
                 /\ processed.list[i].xmls = changes[i].xmls
                 /\ processed.list[i].versions = changes[i].versions
                 /\ processed.list[i].deviceTarget = changes[i].deviceTarget

\* a generic instruction with a device target, followed by one that passes
\* through
C8_Witness ==
    /\ processed.called
    /\ Len(changes) >= 2
    /\ changes[1].target = "package.appxmanifest"
    /\ changes[1].deviceTarget # Undefined
    /\ changes[1].xmls # Undefined
    /\ changes[2].target = "config.xml"
    /\ processed.list[2] = changes[2]

(***************************************************************************)
(* Properties of the capability normalisation.                             *)
(***************************************************************************)
\* C9: a writeToString right after a writeToString leaves the child list
\* of Capabilities as the first one left it.
C9_NormalizationIdempotent ==
    [][(wret = CapsCall("write", "ok") /\ wret' = CapsCall("write", "ok"))
        => children' = children]_vars

\* C10: after writeToString no two children of Capabilities have the same
\* Name.
C10_NoDuplicateNames ==
    wret = CapsCall("write", "ok")
    => \A i, j \in 1..Len(children) :
            i # j => children[i].Name # children[j].Name

\* a write of a child list that held one Name three times, not all adjacent
C10_Witness ==
    /\ wret = CapsCall("write", "ok")
    /\ \E i, j, k \in 1..Len(beforeWrite) :
            /\ i < j /\ j + 1 < k
            /\ beforeWrite[i].Name = beforeWrite[j].Name
            /\ beforeWrite[j].Name = beforeWrite[k].Name
            /\ beforeWrite[j + 1].Name # beforeWrite[j].Name

\* C11: after writeToString every child of Capabilities whose Name is in
\* CAPS_NEEDING_UAPNS has a tag that starts with 'uap:', whatever appends
\* and writes came before; the tag is the one it had before the write when
\* that already started with 'uap:', and otherwise that tag behind one
\* 'uap:' prefix.
C11_NeedingCapsAreUapPrefixed ==
    wret = CapsCall("write", "ok")
    => \A i \in 1..Len(children) :
            children[i].Name \in CAPS_NEEDING_UAPNS
            => /\ Len(children[i].tag) >= 2
               /\ children[i].tag[1] = "uap"
               /\ \E j \in 1..Len(beforeWrite) :
                    /\ beforeWrite[j].id = children[i].id
                    /\ children[i].tag =
                         IF beforeWrite[j].tag[1] = "uap"
                         THEN beforeWrite[j].tag
                         ELSE <<"uap">> \o beforeWrite[j].tag

\* a write that prefixed an unprefixed documentsLibrary and also met one
\* that was prefixed already
C11_Witness ==
    /\ wret = CapsCall("write", "ok")
    /\ \E i \in 1..Len(children), j, k \in 1..Len(beforeWrite) :
            /\ children[i].id = beforeWrite[j].id
            /\ beforeWrite[j].Name = "documentsLibrary"
            /\ beforeWrite[j].tag = <<"Capability">>
            /\ children[i].tag = <<"uap", "Capability">>
            /\ beforeWrite[k].Name = "documentsLibrary"
            /\ beforeWrite[k].tag = <<"uap", "Capability">>

\* the place of a local name in the ordinal order of strings
Rank(tag) == IF tag[Len(tag)] = "Capability" THEN 1 ELSE 2

\* C12: after writeToString the children of Capabilities are in ascending
\* order of local name (the tag after its last ':'): of every two adjacent
\* children the first one's local name is less than or equal to the
\* second one's.
C12_SortedByLocalName ==
    wret = CapsCall("write", "ok")
    => \A i \in 1..(Len(children) - 1) :
            Rank(children[i].tag) <= Rank(children[i + 1].tag)

\* a write that moved a prefixed Capability ahead of the DeviceCapability
\* that stood before it
C12_Witness ==
    /\ wret = CapsCall("write", "ok")
    /\ \E i, j \in 1..Len(beforeWrite), a, b \in 1..Len(children) :
            /\ i < j /\ b < a
            /\ beforeWrite[i].tag = <<"DeviceCapability">>
            /\ beforeWrite[j].tag = <<"uap", "Capability">>
            /\ children[a].id = beforeWrite[i].id
            /\ children[b].id = beforeWrite[j].id

\* the positions of a child list that hold the first element of their Name
FirstOfName(list) ==
    {i \in 1..Len(list) : \A j \in 1..(i - 1) : list[j].Name # list[i].Name}

\* C21: writeToString keeps, of each Name, the child that came first in
\* document order and removes every later child of that Name; no child
\* whose Name none before it has is removed, and children of one Name
\* count as duplicates whether or not their tags carry a prefix.
C21_FirstOccurrenceKept ==
    wret = CapsCall("write", "ok")
    => {children[i].id : i \in 1..Len(children)}
            = {beforeWrite[i].id : i \in FirstOfName(beforeWrite)}

\* a write of a list with an unprefixed internetClient, a child of another
\* Name, and a prefixed internetClient behind them, which was removed
C21_Witness ==
    /\ wret = CapsCall("write", "ok")
    /\ \E i, j, k \in 1..Len(beforeWrite) :
            /\ i < j /\ j < k
            /\ beforeWrite[i].Name = "internetClient"
            /\ beforeWrite[i].tag = <<"Capability">>
            /\ beforeWrite[j].Name = "documentsLibrary"
            /\ beforeWrite[k].Name = "internetClient"
            /\ beforeWrite[k].tag = <<"uap", "Capability">>
            /\ \A c \in 1..Len(children) : children[c].id # beforeWrite[k].id
            /\ \E c \in 1..Len(children) : children[c].id = beforeWrite[i].id

\* the Names of a child list
NamesOf(list) == {list[i].Name : i \in 1..Len(list)}

\* C25: a writeToString that returns adds no Name and loses none: the
\* Names of the children afterwards are the Names before, there are as
\* many children as there were distinct Names, every child is one of the
\* earlier children with at most a 'uap:' prefix added to its tag, and
\* nothing but the child list of Capabilities is changed.
C25_NamesPreserved ==
    [][wret' = CapsCall("write", "ok")
        => /\ NamesOf(children') = NamesOf(children)
           /\ Len(children') = Cardinality(NamesOf(children))
           /\ \A i \in 1..Len(children') : \E j \in 1..Len(children) :
                /\ children'[i].id = children[j].id
                /\ children'[i].Name = children[j].Name
                /\ children'[i].tag \in {children[j].tag,
                                         <<"uap">> \o children[j].tag}
           /\ hasCapabilities' = hasCapabilities
           /\ nextId' = nextId
           /\ UNCHANGED <<cacheVars, changesVars, docVars, rangeVars>>]_vars

\* a write that removed duplicates, prefixed a tag and reordered the rest
C25_Witness ==
    /\ wret = CapsCall("write", "ok")
    /\ Len(beforeWrite) = 4
    /\ Len(children) = 2
    /\ children[1].id > children[2].id
    /\ \E i \in 1..2, j \in 1..4 :
            /\ children[i].id = beforeWrite[j].id
            /\ children[i].tag # beforeWrite[j].tag

(***************************************************************************)
(* Properties of the setters.                                              *)
(***************************************************************************)
\* the parts of a string between its '.' characters
Components(version) ==
    Cardinality({i \in 1..Len(version) : version[i] = "."}) + 1

\* digits and single dots between them: '1', '1.2', '10.0.1'
DottedNumeric(version) ==
    /\ Len(version) >= 1
    /\ version[1] # "." /\ version[Len(version)] # "."
    /\ \A i \in 1..Len(version) :
            version[i] \in {".", "0", "1", "2", "3", "4", "5", "6", "7", "8", "9"}
    /\ \A i \in 1..(Len(version) - 1) : ~(version[i] = "." /\ version[i + 1] = ".")

\* n times '.0'
RECURSIVE Zeros(_)
Zeros(n) == IF n <= 0 THEN <<>> ELSE <<".", "0">> \o Zeros(n - 1)

\* C13: setVersion of a dotted numeric version with 1, 2 or 3 components
\* stores it with trailing '.0' components up to exactly four components
\* ('1.2' becomes '1.2.0.0'); a version of four components is stored as it
\* is.
C13_VersionPaddedToFour ==
    (sret.op = "setVersion" /\ sret.thrown = NotThrown
                            /\ DottedNumeric(sret.arg)
                            /\ Components(sret.arg) <= 4)
    => /\ doc.Identity.Version = sret.arg \o Zeros(4 - Components(sret.arg))
       /\ Components(doc.Identity.Version) = 4

\* C18: after setAppName(name) has returned, the DisplayName of Properties,
\* the DisplayName of VisualElements and the ShortName of DefaultTile are
\* name; setPackageName(name) sets the Name of Identity to name and leaves
\* everything else of the document as it was.
C18_AppNameAndPackageName ==
    /\ (sret.op = "setAppName" /\ sret.thrown = NotThrown)
        => /\ doc.Properties.DisplayName = sret.arg
           /\ doc.VisualElements.DisplayName = sret.arg
           /\ doc.DefaultTile.ShortName = sret.arg
    /\ sret.op = "setPackageName"
        => IF sret.thrown = NotThrown
           THEN doc = [sret.before EXCEPT !.Identity.Name = sret.arg]
           ELSE doc = sret.before

\* the chain of create.js: setAppName has returned on a document whose
\* package name a setPackageName had set, and all three names were others
C18_Witness ==
    /\ sret.op = "setAppName" /\ sret.thrown = NotThrown
    /\ sret.returns = "this"
    /\ sret.before.Identity.Name = sret.arg
    /\ sret.before.Properties.DisplayName # sret.arg
    /\ sret.before.VisualElements.DisplayName # sret.arg
    /\ sret.before.DefaultTile.ShortName # sret.arg

\* the setters of values the schema requires to be non-empty
RequiredSetters ==
    {"setName", "setPublisher", "setVersion", "Properties.setDisplayName",
     "setPublisherDisplayName", "setId", "VisualElements.setDisplayName",
     "VisualElements.setDescription", "setBackgroundColor", "setShortName",
     "setPhoneProductId"}

\* the last call handed its setter an empty or an undefined value
EmptyArgument ==
    IF sret.op = "VisualElements.setDescription"
    THEN sret.arg = <<>> \/ sret.arg = <<[ch |-> "undefined", n |-> 0]>>
    ELSE sret.arg = <<>> \/ sret.arg = <<"undefined">>

\* C19: each of the setters of a required value, called on its view with an
\* empty or undefined value, throws the error of its argument check,
\* stores no default and leaves the document as it was.
C19_EmptyValueRejected ==
    (sret.op \in RequiredSetters /\ sret.thrown.about # "node" /\ EmptyArgument)
    => /\ sret.thrown.class \in {"TypeError", "Error"}
       /\ sret.thrown.about = "value"
       /\ doc = sret.before

\* setShortName('') on a document without a DefaultTile, after a call that
\* changed the document
C19_Witness ==
    /\ sret.op = "setShortName" /\ sret.arg = <<>>
    /\ sret.thrown.about = "value"
    /\ ~doc.hasDefaultTile
    /\ calls = 2
    /\ doc # Template /\ doc.hasVisualElements

\* C20: after setDependencies() or setDependencies([]) the document has no
\* Dependencies element, whether it had one or not; after setDependencies
\* of a non-empty list the Dependencies element holds one TargetDeviceFamily
\* per entry, in the order of the list, and nothing else.
C20_DependenciesReplaced ==
    sret.op = "setDependencies"
    => IF ~sret.dependencies.given \/ sret.dependencies.list = <<>>
       THEN ~doc.hasDependencies
       ELSE /\ doc.hasDependencies
            /\ doc.Dependencies = sret.dependencies.list

\* the setters of the manifest itself
ManifestSetters == {"setPackageName", "setAppName", "setDependencies"}

\* C22: a setter that does not throw returns the object it was called on:
\* a setter of a view returns the view, also setAccessRules without rules,
\* and setPackageName, setAppName and setDependencies return the manifest,
\* also setDependencies with a non-empty list.
C22_SettersReturnReceiver ==
    (sret.op # "init" /\ sret.thrown.class = "none")
    => IF sret.op \in ManifestSetters
       THEN sret.returns = "this"
       ELSE sret.returns = "view"

\* the number of characters of a description
RECURSIVE Chars(_)
Chars(text) == IF Len(text) = 0 THEN 0 ELSE text[1].n + Chars(Tail(text))

\* the description the last call stored
StoredDescription ==
    IF sret.op = "Properties.setDescription"
    THEN doc.Properties.Description
    ELSE doc.VisualElements.Description

\* C23: the description that Properties.setDescription or
\* VisualElements.setDescription stores for a non-empty text has at most
\* 2048 characters and no newline, carriage return or tab among them.
C23_DescriptionWithinLimit ==
    (/\ sret.op \in {"Properties.setDescription", "VisualElements.setDescription"}
     /\ sret.thrown.class = "none"
     /\ Len(sret.arg) > 0 /\ sret.arg[1].n > 0)
    => /\ Chars(StoredDescription) <= 2048
       /\ \A i \in 1..Len(StoredDescription) :
            StoredDescription[i].ch \notin {"\n", "\r", "\t"}

(***************************************************************************)
(* Properties of the version range resolver.                               *)
(***************************************************************************)
\* the positions of the preferences that name a bound of family
BoundsOf(family) ==
    {i \in 1..Len(preferences) :
        preferences[i].name \in {<<family, "MinVersion">>,
                                 <<family, "MaxVersionTested">>}}

\* the families some preference names a bound of
Mentioned ==
    {family \in {"Windows.Universal", "Windows.Desktop", "Microsoft.Xbox"} :
        BoundsOf(family) # {}}

\* the values the preferences give to one bound of a family
Given(family, key) ==
    {preferences[i].value :
        i \in {j \in 1..Len(preferences) : preferences[j].name = <<family, key>>}}

\* the call has returned a result
Resolved == resolved.called /\ resolved.thrown = "none"

\* C14: a result of the resolver has exactly one entry for every family
\* that a '<Family>-MinVersion' or '<Family>-MaxVersionTested' preference
\* mentions, with both bounds set; when only Min bounds were given the
\* entry's MaxVersionTested is its MinVersion, and when only Max bounds
\* were given its MinVersion is its MaxVersionTested.
C14_OneEntryPerFamily ==
    Resolved
    => \A family \in Mentioned :
        /\ Cardinality({i \in 1..Len(resolved.entries) :
                            resolved.entries[i].Name = family}) = 1
        /\ \A i \in 1..Len(resolved.entries) :
            resolved.entries[i].Name = family
            => /\ resolved.entries[i].MinVersion # <<>>
               /\ resolved.entries[i].MaxVersionTested # <<>>
               /\ Given(family, "MaxVersionTested") = {}
                    => /\ resolved.entries[i].MinVersion
                            \in Given(family, "MinVersion")
                       /\ resolved.entries[i].MaxVersionTested
                            = resolved.entries[i].MinVersion
               /\ Given(family, "MinVersion") = {}
                    => /\ resolved.entries[i].MaxVersionTested
                            \in Given(family, "MaxVersionTested")
                       /\ resolved.entries[i].MinVersion
                            = resolved.entries[i].MaxVersionTested

\* one family with a Min bound only and one with a Max bound only, beside a
\* third entry
C14_Witness ==
    /\ Resolved
    /\ Len(resolved.entries) = 3
    /\ \E f, g \in Mentioned :
        /\ Given(f, "MaxVersionTested") = {}
        /\ Given(g, "MinVersion") = {}

\* the entry of the baseline
Baseline ==
    [Name |-> "Windows.Universal", MinVersion |-> BASE_UAP_VERSION,
     MaxVersionTested |-> BASE_UAP_VERSION]

\* C15: when no preference names Windows.Universal, the result has a
\* Windows.Universal entry with both bounds at the baseline version, and
\* for no preferences at all it is that entry alone; when Windows.Universal
\* is named, the result has no entry but those of the named families and
\* none carries the baseline.
C15_BaselineWhenUniversalAbsent ==
    Resolved
    => /\ "Windows.Universal" \notin Mentioned
            => /\ \E i \in 1..Len(resolved.entries) :
                        resolved.entries[i] = Baseline
               /\ Len(resolved.entries) = Cardinality(Mentioned) + 1
       /\ preferences = <<>> => resolved.entries = <<Baseline>>
       /\ "Windows.Universal" \in Mentioned
            => /\ Len(resolved.entries) = Cardinality(Mentioned)
               /\ \A i \in 1..Len(resolved.entries) :
                        resolved.entries[i] # Baseline

\* preferences that name other families only
C15_Witness ==
    /\ Resolved
    /\ Cardinality(Mentioned) = 2
    /\ "Windows.Universal" \notin Mentioned
    /\ Len(resolved.entries) = 3

\* the position at which a family is first named
FirstSeen(family) ==
    CHOOSE i \in BoundsOf(family) : \A j \in BoundsOf(family) : i <= j

\* C16: the entries of the named families stand in the order in which the
\* families are first named in the preferences, whichever key names them
\* first and however often they are named later; a synthesized
\* Windows.Universal entry stands before them all.
C16_FirstSeenOrder ==
    Resolved
    => LET first == IF "Windows.Universal" \in Mentioned THEN 1 ELSE 2
       IN /\ first = 2 => resolved.entries[1].Name = "Windows.Universal"
          /\ \A i, j \in first..Len(resolved.entries) :
                i < j => FirstSeen(resolved.entries[i].Name)
                            < FirstSeen(resolved.entries[j].Name)

\* a family named by its Max key first and by its Min key after another
\* family, under a synthesized entry
C16_Witness ==
    /\ Resolved
    /\ Len(preferences) = 3
    /\ preferences[1].name = <<"Windows.Desktop", "MaxVersionTested">>
    /\ preferences[2].name = <<"Microsoft.Xbox", "MinVersion">>
    /\ preferences[3].name = <<"Windows.Desktop", "MinVersion">>
    /\ Len(resolved.entries) = 3
    /\ resolved.entries[2].Name = "Windows.Desktop"
    /\ resolved.entries[3].Name = "Microsoft.Xbox"

\* some Min or Max preference has a value with a component 'f'
Malformed ==
    \E family \in Mentioned : \E i \in BoundsOf(family) :
        \E k \in 1..Len(preferences[i].value) : preferences[i].value[k] = "f"

\* C17: when the value of some Min or Max preference has a component that
\* is not an integer, the call throws a RangeError and returns no entry,
\* whatever the other preferences are.
C17_MalformedVersionThrows ==
    (resolved.called /\ Malformed)
    => /\ resolved.thrown = "RangeError"
       /\ resolved.entries = <<>>

\* a well-formed bound ahead of a malformed one
C17_Witness ==
    /\ resolved.called /\ resolved.thrown = "RangeError"
    /\ Len(preferences) >= 2
    /\ preferences[1] = [name |-> <<"Windows.Universal", "MinVersion">>,
                         value |-> <<"10", "0", "9917", "0">>]
    /\ preferences[2] = [name |-> <<"Windows.Desktop", "MaxVersionTested">>,
                         value |-> <<"10", "0", "9910", "f">>]

====
